---- MODULE Spec2Model ----
(***************************************************************************)
(* Concurrent batch-inference orchestrator of ryan-arman/lab.              *)
(*                                                                         *)
(* Four functions share one pattern: submit every item to a               *)
(* ThreadPoolExecutor(max_workers), collect the futures with               *)
(* as_completed, append each outcome to a success or a failure list, and   *)
(* return after the `with` block has joined the pool:                      *)
(*   "summaries"  evaluate_summaries_batch          (arxiv_abstract)       *)
(*   "abstracts"  generate_abstracts_batch          (arxiv_abstract)       *)
(*   "incorrect"  evaluate_incorrect_classifications_batch (banking77)     *)
(*   "hard"       generate_hard_examples_batch      (banking77)            *)
(*                                                                         *)
(* A future is identified by the position 1..N of its item in the input.   *)
(* The remote call is a black box: its outcome (a payload, or an exception *)
(* with some message) is chosen when the worker finishes the item.         *)
(***************************************************************************)
EXTENDS Integers, Sequences, FiniteSets, TLC

\* ------------------------------------------------------------------ bounds
MaxN == 3          \* longest input sequence explored
MaxWorkers == 2    \* largest max_workers explored
MaxExamples == 1   \* most examples one generate_hard_examples call yields
MaxLines == 2      \* most input lines a script reads in one run

\* ------------------------------------------------------------ plain values
None == "None"     \* Python's None
NoResult == [done |-> FALSE]   \* what a future holds before it is done

Fns == {"summaries", "abstracts", "incorrect", "hard"}

\* str(e) of the exceptions explored: an exception may carry no message,
\* e.g. ValueError(), whose str() is the empty string.
Messages == {"", "boom"}

VARIABLES
    fn,             \* which batch function is called
    items,          \* the index each input element is submitted under
    max_workers,    \* the max_workers argument
    show_progress,  \* the show_progress argument
    has_tqdm,       \* whether the tqdm package can be imported
    pc,             \* where the calling thread is
    nsub,           \* number of executor.submit calls made so far
    queue,          \* the executor's work queue (positions, FIFO)
    threads,        \* worker threads the executor has started
    running,        \* positions whose operation is executing in a worker
    ret,            \* position -> value its future holds (NoResult if not done)
    yielded,        \* positions as_completed has yielded, in that order
    results,        \* the success list (all_results for "hard")
    errors,         \* the failure list
    completed,      \* the local counter `completed`
    exc,            \* exception leaving the call (None if none)
    client_instance, \* whether the caller passed its own client_instance
    calls,          \* position -> times the per-item operation was entered
    pbar_n,         \* the progress bar's counter n
    obs,            \* completed count of the progress line just emitted
    _client,        \* module-level _client of banking77 utils (process-wide)
    worker_client,  \* position -> client_instance local of the worker's
                    \* generate_hard_examples call (None when not running)
    \* --- the two file-rewriting scripts (clean_training_data.py,
    \* --- merge_and_fix_training_data.py)
    script,         \* which script runs (None while a batch function runs)
    spc,            \* where the script is
    dry_run,        \* the dry_run argument of clean_training_data
    outfile,        \* content of the output path (None: no such file)
    outfile_before, \* content of the output path when the script started
    nread,          \* input lines read so far
    stats,          \* the stats dict of clean_training_data
    last,           \* what the latest loop iteration did with its line
    train_count,    \* merge_and_fix_files: training entries written
    eval_written    \* merge_and_fix_files: evaluation entries written

batchVars == <<fn, items, max_workers, show_progress, has_tqdm, pc, nsub,
               queue, threads, running, ret, yielded, results, errors,
               completed, exc, client_instance, calls, pbar_n, obs, _client,
               worker_client>>

scriptVars == <<script, spc, dry_run, outfile, outfile_before, nread, stats,
                last, train_count, eval_written>>

vars == <<batchVars, scriptVars>>

inputs == <<fn, items, max_workers, show_progress, has_tqdm, client_instance>>

\* What the progress sink shows between two progress lines: nothing.
NoObs == [completed |-> -1]

N == Len(items)
Range(s) == {s[i] : i \in 1..Len(s)}

\* --------------------------------------------------------------- inputs
\* enumerate(conversations): element at position p is submitted as p-1.
Enumerate(n) == [p \in 1..n |-> p - 1]

\* measure_accuracy appends (idx, ...) for the misclassified rows while it
\* enumerates inference_data, so incorrect_list carries strictly ascending
\* row indices that need not be 0..n-1.  Rows 0..n with one row skipped.
MeasureAccuracyLists(n) ==
    {[p \in 1..n |-> IF p - 1 < skip THEN p - 1 ELSE p] : skip \in 0..n}

InputItems(f, n) ==
    IF f = "incorrect" THEN MeasureAccuracyLists(n) ELSE {Enumerate(n)}

\* ------------------------------------------------- the per-item operation
\* Outcome of the remote operation on one item: it returns a payload
\* (n examples for generate_hard_examples) or raises with message msg.
OpOutcomes(f) ==
    {[raised |-> FALSE, msg |-> None, n |-> k] :
        k \in (IF f = "hard" THEN 0..MaxExamples ELSE {0})}
    \cup {[raised |-> TRUE, msg |-> m, n |-> 0] : m \in Messages}

\* Variant: the closure reads the loop variable late and reports the index
\* of the last submitted element for every item.
evaluate_single_late(idx, o) ==
    IF o.raised
    THEN [idx |-> items[N], result |-> None, error |-> o.msg]
    ELSE [idx |-> items[N], result |-> "payload", error |-> None]

\* evaluate_single / generate_single: try the operation, return
\* (idx, result, error) with error = str(e) when it raised.
evaluate_single(idx, o) ==
    IF o.raised
    THEN [idx |-> idx, result |-> None, error |-> o.msg]
    ELSE [idx |-> idx, result |-> "payload", error |-> None]

\* None in the 'result' field of a pair's dict (otherwise the dict that
\* generate_hard_examples returns).
NoneDict == [is_none |-> TRUE, examples |-> <<>>, num_generated |-> 0]

\* generate_for_pair: the same, as a dict with an explicit success flag.
generate_for_pair(pair, o) ==
    IF o.raised
    THEN [pair |-> pair, result |-> NoneDict, success |-> FALSE,
          error |-> o.msg]
    ELSE [pair |-> pair,
          result |-> [is_none |-> FALSE,
                      examples |-> [i \in 1..o.n |-> pair],
                      num_generated |-> o.n],
          success |-> TRUE, error |-> None]

WorkerReturn(f, idx, o) ==
    IF f = "hard" THEN generate_for_pair(idx, o) ELSE evaluate_single(idx, o)

\* Python truthiness of the error field: None and "" are both falsy.
Truthy(error) == error # None /\ error # ""


\* ------------------------------------------------------- the API client
\* Variant: no caching, every get_client() builds another client.
get_client_uncached(c) == IF c = "OpenAI" THEN "OpenAI#2" ELSE "OpenAI"

\* get_client: create the module-level client on first use, then reuse it.
get_client(c) == IF c = None THEN "OpenAI" ELSE c

\* `if client_instance is None: client_instance = get_client()` at the top
\* of evaluate_incorrect_classifications_batch; the arxiv functions read a
\* client built at import, generate_hard_examples_batch takes none.
ClientAfterEntry(f, passed, c) ==
    IF f = "incorrect" /\ ~passed THEN get_client(c) ELSE c

\* generate_for_pair calls generate_hard_examples without client_instance,
\* so every worker of generate_hard_examples_batch runs get_client() itself,
\* concurrently with the other workers.  get_client is not atomic: the test
\* `if _client is None` and the assignment `_client = get_openai_client()`
\* are separate steps of the thread.
Constructing == "constructing"   \* saw None, get_openai_client() under way

\* The k-th client object constructed in the process.
ClientName(k) == IF k = 1 THEN "OpenAI" ELSE "OpenAI#" \o ToString(k)

\* `if _client is None:` falls through to the construction, otherwise
\* `return _client`.
ClientTested(c) == IF c = None THEN Constructing ELSE c

\* The client objects that exist: the module-level one and those the
\* workers hold.
ClientsAlive(c, held) ==
    ({c} \cup {held[p] : p \in DOMAIN held}) \ {None, Constructing}

\* get_openai_client() returns a new OpenAI object every time it is called:
\* one that is none of the objects alive (named by the first free number).
NewClient(c, held) ==
    ClientName(CHOOSE k \in 1..(Cardinality(ClientsAlive(c, held)) + 1) :
                  /\ ClientName(k) \notin ClientsAlive(c, held)
                  /\ \A j \in 1..(k - 1) :
                        ClientName(j) \in ClientsAlive(c, held))

\* generate_hard_examples can only return its dict after the API call made
\* through its client; it can raise at any point (int() of the pair string,
\* get_openai_client() without an API key, the API call).
MayFinish(f, o, held) ==
    (f = "hard" /\ ~o.raised) => held \notin {None, Constructing}

\* ------------------------------------------------------- the progress sink
\* The progress bar the collection loop talks to: generate_abstracts_batch
\* uses the module-level tqdm (the real class, or the fallback class defined
\* when the import fails); evaluate_incorrect_classifications_batch imports
\* tqdm itself and uses no bar without it; the other two only print.
Pbar(f, sp, ht) ==
    CASE f = "abstracts" /\ sp -> IF ht THEN "tqdm" ELSE "fallback"
      [] f = "incorrect" /\ sp /\ ht -> "tqdm"
      [] OTHER -> None

\* Methods each progress-bar class defines.
PbarMethods(pb) ==
    CASE pb = "tqdm" -> {"write", "update", "set_postfix", "close"}
      [] pb = "fallback" -> {"update", "close"}
      [] OTHER -> {}

\* Whether one iteration of the collection loop raises AttributeError: the
\* error branch calls pbar.write, and every iteration with a bar calls
\* pbar.update and pbar.set_postfix.
SinkRaises(pb, error) ==
    /\ pb # None
    /\ \/ Truthy(error) /\ "write" \notin PbarMethods(pb)
       \/ "update" \notin PbarMethods(pb)
       \/ "set_postfix" \notin PbarMethods(pb)

\* pbar.n after one iteration: the error branch calls pbar.write before
\* pbar.update(1), so update is not reached when write is missing.
PbarNAfter(pb, n, error) ==
    IF pb = None \/ (Truthy(error) /\ "write" \notin PbarMethods(pb))
    THEN n ELSE n + 1

\* The completed count an iteration of a tuple-returning loop reports:
\* evaluate_summaries_batch prints `completed` in its else branch,
\* evaluate_incorrect_classifications_batch prints it in every iteration when
\* tqdm is missing, and a real progress bar shows its own counter n.
ObsAfter(f, sp, ht, c, n, error) ==
    CASE Pbar(f, sp, ht) = "tqdm" -> [completed |-> n]
      [] f = "summaries" /\ sp /\ ~Truthy(error) -> [completed |-> c]
      [] f = "incorrect" /\ sp /\ ~ht -> [completed |-> c]
      [] OTHER -> NoObs

\* generate_hard_examples_batch prints [completed/len(pairs)] per pair.
ObsAfterPair(sp, c) == IF sp THEN [completed |-> c] ELSE NoObs

\* ------------------------------------------------------------- the executor
\* Variant: any worker count is accepted.
RejectsWorkersNever(w) == FALSE

\* ThreadPoolExecutor.__init__: max_workers <= 0 raises ValueError.
RejectsWorkers(w) == w <= 0

\* Variant: the pool starts all its threads when it is constructed.
ThreadsAtCreationEager(w) == w

\* ThreadPoolExecutor starts its threads on submit, none on construction.
ThreadsAtCreation(w) == 0

\* Variant: each element is submitted twice.
QueueAfterSubmitTwice(q, p) == Append(Append(q, p), p)

\* executor.submit puts one work item for the element on the queue.
QueueAfterSubmit(q, p) == Append(q, p)

\* Variant: every submit starts a thread, whatever max_workers is.
SpawnAlways(t, w) == TRUE

\* ThreadPoolExecutor._adjust_thread_count: a submit starts a new worker
\* thread only while fewer than max_workers threads exist.
SpawnAllowed(t, w) == t < w

\* Thread counts a submit may leave behind: with an idle worker available
\* the submit may reuse it instead of starting a thread.
ThreadsAfterSubmit(t, busy, w) ==
    IF SpawnAllowed(t, w)
    THEN (IF t > busy THEN {t, t + 1} ELSE {t + 1})
    ELSE {t}

\* Variant: a raising work item cancels the work items still queued.
QueueAfterRunCancel(q, o) == IF o.raised THEN <<>> ELSE q

\* A work item that raised inside the operation was turned into a returned
\* tuple by the try/except of evaluate_single, so the queue of the other
\* work items is left as it is.
QueueAfterRun(q, o) == q

\* ----------------------------------------------------------- the collector
\* as_completed yields a future once it is done and was not yielded before.
Yieldable(p) == ret[p] # NoResult /\ p \notin Range(yielded)

\* The for loop over as_completed ends when every future has been yielded.
AsCompletedExhausted == Range(yielded) = 1..N

\* Variant: leaving the `with` block does not wait for the pool.
ShutdownNoWait == TRUE

\* executor.__exit__ -> shutdown(wait=True): blocks until the queue is
\* drained and no worker is executing an item.
ShutdownWaitDone == queue = <<>> /\ running = {}

\* Variant: the call leaves as soon as the work queue is drained, without
\* waiting for the futures or the workers.
BatchJoinedNoWait == queue = <<>>

\* Leaving the `with` block normally: the loop is over and the pool joined.
BatchJoined == AsCompletedExhausted /\ ShutdownWaitDone

\* Variant: a failure is only reported, never appended.
ErrorsAfterDropped(errs, t) == errs

\* `if error:` branch of the loop: errors.append((idx, error)).
ErrorsAfter(errs, t) ==
    IF Truthy(t.error) THEN Append(errs, [idx |-> t.idx, error |-> t.error])
    ELSE errs

\* Variant: a success is appended twice.
ResultsAfterTwice(res, t) ==
    IF Truthy(t.error) THEN res
    ELSE Append(Append(res, [idx |-> t.idx, result |-> t.result]),
                [idx |-> t.idx, result |-> t.result])

\* else branch: results.append((idx, result)).
ResultsAfter(res, t) ==
    IF Truthy(t.error) THEN res
    ELSE Append(res, [idx |-> t.idx, result |-> t.result])

\* Variant: all_results is keyed by the pair string, a later result for the
\* same pair replaces the earlier one.
AllResultsAfterByPair(res, r) ==
    Append(SelectSeq(res, LAMBDA e : e.pair # r.pair), r)

\* all_results.append(result) in the loop of generate_hard_examples_batch.
AllResultsAfter(res, r) == Append(res, r)

\* completed += 1 sits in the else branch only.
CompletedAfter(c, t) == IF Truthy(t.error) THEN c ELSE c + 1

\* results.sort(key=lambda x: x[0]): a stable sort by index.
RECURSIVE InsertByIdx(_, _)
InsertByIdx(sorted, e) ==
    IF sorted = <<>> THEN <<e>>
    ELSE IF Head(sorted).idx <= e.idx
         THEN <<Head(sorted)>> \o InsertByIdx(Tail(sorted), e)
         ELSE <<e>> \o sorted

RECURSIVE SortByIdx(_)
SortByIdx(s) ==
    IF s = <<>> THEN <<>>
    ELSE InsertByIdx(SortByIdx(SubSeq(s, 1, Len(s) - 1)), s[Len(s)])

\* Variant: no function sorts.
FinalResultsUnsorted(f, res) == res

\* Variant: generate_hard_examples_batch sorts by pair as well.
RECURSIVE InsertByPair(_, _)
InsertByPair(sorted, e) ==
    IF sorted = <<>> THEN <<e>>
    ELSE IF Head(sorted).pair <= e.pair
         THEN <<Head(sorted)>> \o InsertByPair(Tail(sorted), e)
         ELSE <<e>> \o sorted

RECURSIVE SortByPair(_)
SortByPair(s) ==
    IF s = <<>> THEN <<>>
    ELSE InsertByPair(SortByPair(SubSeq(s, 1, Len(s) - 1)), s[Len(s)])

FinalResultsAllSorted(f, res) ==
    IF f = "hard" THEN SortByPair(res) ELSE SortByIdx(res)

\* What the function does to the success list before returning it: the
\* three tuple-returning functions sort it, generate_hard_examples_batch
\* returns all_results as collected.
FinalResults(f, res) == IF f = "hard" THEN res ELSE SortByIdx(res)

\* all_examples: the examples of the successful entries of all_results,
\* concatenated in list order.
RECURSIVE AllExamples(_)
AllExamples(res) ==
    IF res = <<>> THEN <<>>
    ELSE (IF Head(res).success /\ ~Head(res).result.is_none
          THEN Head(res).result.examples ELSE <<>>)
         \o AllExamples(Tail(res))

\* successful_pairs = sum(1 for r in all_results if r['success'])
SuccessfulPairs(res) == Cardinality({i \in 1..Len(res) : res[i].success})
FailedPairs(res) == Len(res) - SuccessfulPairs(res)

\* ------------------------------------------------------------------ Init
\* The state at the start of a call: arguments and fresh locals.
FreshCall ==
    /\ fn \in Fns
    /\ max_workers \in 0..MaxWorkers
    /\ \E n \in 0..MaxN : items \in InputItems(fn, n)
    /\ show_progress \in BOOLEAN
    /\ has_tqdm \in (IF fn \in {"abstracts", "incorrect"} /\ show_progress
                     THEN BOOLEAN ELSE {TRUE})
    /\ pc = "enter"
    /\ nsub = 0
    /\ queue = <<>>
    /\ threads = 0
    /\ running = {}
    /\ ret = [p \in 1..N |-> NoResult]
    /\ yielded = <<>>
    /\ results = <<>>
    /\ errors = <<>>
    /\ completed = 0
    /\ exc = None
    /\ client_instance \in (IF fn = "incorrect" THEN BOOLEAN ELSE {FALSE})
    /\ calls = [p \in 1..N |-> 0]
    /\ pbar_n = 0
    /\ obs = NoObs
    /\ worker_client = [p \in 1..N |-> None]

\* No script is running.
NoScript ==
    /\ script = None
    /\ spc = "idle"
    /\ dry_run = FALSE
    /\ outfile = None
    /\ outfile_before = None
    /\ nread = 0
    /\ stats = [total |-> 0, cleaned |-> 0, skipped_empty |-> 0]
    /\ last = [skipped |-> FALSE, wrote |-> FALSE]
    /\ train_count = 0
    /\ eval_written = 0

\* First call in a process that has just imported the modules.
Init ==
    /\ FreshCall
    /\ _client = None
    /\ NoScript

\* --------------------------------------------------------------- actions
\* ThreadPoolExecutor(max_workers) raises ValueError for max_workers <= 0.
ConfigError ==
    /\ pc = "enter"
    /\ RejectsWorkers(max_workers)
    /\ pc' = "raised"
    /\ exc' = "ValueError"
    /\ _client' = ClientAfterEntry(fn, client_instance, _client)
    /\ UNCHANGED <<scriptVars, worker_client, inputs,
                   nsub, queue, threads, running, ret, yielded,
                   results, errors, completed, calls, pbar_n, obs>>

\* The executor is created and the `with` block entered.
EnterWith ==
    /\ pc = "enter"
    /\ ~RejectsWorkers(max_workers)
    /\ pc' = "submit"
    /\ threads' = ThreadsAtCreation(max_workers)
    /\ _client' = ClientAfterEntry(fn, client_instance, _client)
    /\ UNCHANGED <<scriptVars, worker_client, inputs,
                   nsub, queue, running, ret, yielded,
                   results, errors, completed, exc, calls, pbar_n, obs>>

\* One executor.submit of the dict comprehension, in input order.
Submit ==
    /\ pc = "submit"
    /\ nsub < N
    /\ nsub' = nsub + 1
    /\ queue' = QueueAfterSubmit(queue, nsub + 1)
    /\ threads' \in ThreadsAfterSubmit(threads, Cardinality(running),
                                       max_workers)
    /\ UNCHANGED <<scriptVars, worker_client, inputs,
                   pc, running, ret, yielded, results, errors,
                   completed, exc, calls, pbar_n, obs, _client>>

\* All futures submitted: completed = 0, the bar is created, the loop starts.
BeginCollect ==
    /\ pc = "submit"
    /\ nsub = N
    /\ pc' = "collect"
    /\ completed' = 0
    /\ UNCHANGED <<scriptVars, worker_client, inputs,
                   nsub, queue, threads, running, ret, yielded,
                   results, errors, exc, calls, pbar_n, obs, _client>>

\* What a worker holds after its first access to shared state: a worker of
\* generate_hard_examples_batch has run the test of get_client(), the
\* workers of the other functions use the client of their closure.
ClientAtTake(f, c) == IF f = "hard" THEN ClientTested(c) ELSE None

\* An idle worker thread takes the oldest queued work item and runs the
\* per-item operation up to its first access to shared state (the test
\* `if _client is None` of get_client() in generate_hard_examples).
WorkerTake ==
    /\ queue # <<>>
    /\ threads > Cardinality(running)
    /\ running' = running \cup {Head(queue)}
    /\ queue' = Tail(queue)
    /\ calls' = [calls EXCEPT ![Head(queue)] = @ + 1]
    /\ worker_client' =
          [worker_client EXCEPT ![Head(queue)] = ClientAtTake(fn, _client)]
    /\ UNCHANGED <<scriptVars, inputs,
                   pc, nsub, threads, ret, yielded, results, errors,
                   completed, exc, pbar_n, obs, _client>>

\* The operation of item p ends, with any outcome; its future becomes done.
WorkerFinish(p, o) ==
    /\ p \in running
    /\ running' = running \ {p}
    /\ ret' = [ret EXCEPT ![p] = WorkerReturn(fn, items[p], o)]
    /\ queue' = QueueAfterRun(queue, o)
    /\ MayFinish(fn, o, worker_client[p])
    /\ worker_client' = [worker_client EXCEPT ![p] = None]
    /\ UNCHANGED <<scriptVars, inputs, pc, nsub, threads,
                   yielded, results, errors, completed, exc, calls, pbar_n,
                   obs, _client>>

\* Worker p, which found _client to be None, runs
\* `_client = get_openai_client()` and `return _client`.
GetClientAssign(p) ==
    /\ p \in running
    /\ worker_client[p] = Constructing
    /\ _client' = NewClient(_client, worker_client)
    /\ worker_client' = [worker_client EXCEPT ![p] = _client']
    /\ UNCHANGED <<scriptVars, inputs, pc, nsub, queue, threads, running,
                   ret, yielded, results, errors, completed, exc, calls,
                   pbar_n, obs>>

\* One iteration of the collection loop of the three tuple-returning
\* functions, for the future as_completed yields.
CollectTuple(p) ==
    /\ pc = "collect"
    /\ fn # "hard"
    /\ Yieldable(p)
    /\ yielded' = Append(yielded, p)
    /\ errors' = ErrorsAfter(errors, ret[p])
    /\ results' = ResultsAfter(results, ret[p])
    /\ completed' = CompletedAfter(completed, ret[p])
    /\ pbar_n' = PbarNAfter(Pbar(fn, show_progress, has_tqdm), pbar_n,
                            ret[p].error)
    /\ obs' = ObsAfter(fn, show_progress, has_tqdm, completed', pbar_n',
                       ret[p].error)
    /\ IF SinkRaises(Pbar(fn, show_progress, has_tqdm), ret[p].error)
       THEN pc' = "unwind" /\ exc' = "AttributeError"
       ELSE UNCHANGED <<pc, exc>>
    /\ UNCHANGED <<scriptVars, worker_client, inputs,
                   nsub, queue, threads, running, ret, calls,
                   _client>>

\* One iteration of the collection loop of generate_hard_examples_batch.
CollectPair(p) ==
    /\ pc = "collect"
    /\ fn = "hard"
    /\ Yieldable(p)
    /\ yielded' = Append(yielded, p)
    /\ results' = AllResultsAfter(results, ret[p])
    /\ completed' = completed + 1
    /\ obs' = ObsAfterPair(show_progress, completed')
    /\ UNCHANGED <<scriptVars, worker_client, inputs,
                   pc, nsub, queue, threads, running, ret, errors,
                   exc, calls, pbar_n, _client>>

\* The loop ends, the `with` block joins the pool, the success list is
\* sorted (not for "hard") and the function returns.
Return ==
    /\ pc = "collect"
    /\ BatchJoined
    /\ results' = FinalResults(fn, results)
    /\ pc' = "returned"
    /\ UNCHANGED <<scriptVars, worker_client, inputs,
                   nsub, queue, threads, running, ret, yielded,
                   errors, completed, exc, calls, pbar_n, obs, _client>>

\* An exception left the loop: finally closes the bar, the `with` block
\* still waits for the pool, then the exception leaves the call.
Unwind ==
    /\ pc = "unwind"
    /\ ShutdownWaitDone
    /\ pc' = "raised"
    /\ UNCHANGED <<scriptVars, worker_client, inputs,
                   nsub, queue, threads, running, ret, yielded,
                   results, errors, completed, exc, calls, pbar_n, obs,
                   _client>>

Next ==
    \/ ConfigError
    \/ EnterWith
    \/ Submit
    \/ BeginCollect
    \/ WorkerTake
    \/ \E p \in 1..N : GetClientAssign(p)
    \/ \E p \in 1..N : \E o \in OpOutcomes(fn) : WorkerFinish(p, o)
    \/ \E p \in 1..N : CollectTuple(p)
    \/ \E p \in 1..N : CollectPair(p)
    \/ Return
    \/ Unwind

Spec == Init /\ [][Next]_vars

\* ---------------------------------------------------------------- fairness
\* The calling thread keeps running, the pool's threads are scheduled, and
\* every per-item operation that was entered eventually returns or raises.
Fairness ==
    /\ WF_vars(ConfigError)
    /\ WF_vars(EnterWith)
    /\ WF_vars(Submit)
    /\ WF_vars(BeginCollect)
    /\ WF_vars(WorkerTake)
    /\ WF_vars(\E p \in 1..N : GetClientAssign(p))
    /\ \A p \in 1..MaxN :
          WF_vars(\E o \in OpOutcomes(fn) : WorkerFinish(p, o))
    /\ WF_vars(\E p \in 1..N : CollectTuple(p))
    /\ WF_vars(\E p \in 1..N : CollectPair(p))
    /\ WF_vars(Return)
    /\ WF_vars(Unwind)

FairSpec == Init /\ [][Next]_vars /\ Fairness

\* ------------------------------------------------- several calls in a row
\* `results = []` (`all_results = []`) at the top of every call.
ResultsAtEntry(res) == <<>>

\* `errors = []` at the top of every call.
ErrorsAtEntry(errs) == <<>>

\* The call is over (returned or raised) and its frame is gone: its locals
\* and its executor no longer exist; module-level state stays.
ExitCall ==
    /\ pc \in {"returned", "raised"}
    /\ pc' = "idle"
    /\ nsub' = 0
    /\ queue' = <<>>
    /\ threads' = 0
    /\ running' = {}
    /\ ret' = [p \in 1..N |-> NoResult]
    /\ yielded' = <<>>
    /\ results' = <<>>
    /\ errors' = <<>>
    /\ completed' = 0
    /\ exc' = None
    /\ calls' = [p \in 1..N |-> 0]
    /\ pbar_n' = 0
    /\ obs' = NoObs
    /\ worker_client' = [p \in 1..N |-> None]
    /\ UNCHANGED <<scriptVars, inputs, _client>>

\* The same process makes another, independent call: new arguments, new
\* locals, a new executor; only the module-level state is what the earlier
\* calls left.
NewCall ==
    /\ pc = "idle"
    /\ fn' \in Fns
    /\ max_workers' \in 0..MaxWorkers
    /\ \E n \in 0..MaxN : items' \in InputItems(fn', n)
    /\ show_progress' \in BOOLEAN
    /\ has_tqdm' \in (IF fn' \in {"abstracts", "incorrect"} /\ show_progress'
                      THEN BOOLEAN ELSE {TRUE})
    /\ client_instance' \in (IF fn' = "incorrect" THEN BOOLEAN ELSE {FALSE})
    /\ pc' = "enter"
    /\ nsub' = 0
    /\ queue' = <<>>
    /\ threads' = 0
    /\ running' = {}
    /\ ret' = [p \in 1..Len(items') |-> NoResult]
    /\ yielded' = <<>>
    /\ results' = ResultsAtEntry(results)
    /\ errors' = ErrorsAtEntry(errors)
    /\ completed' = 0
    /\ exc' = None
    /\ calls' = [p \in 1..Len(items') |-> 0]
    /\ pbar_n' = 0
    /\ obs' = NoObs
    /\ worker_client' = [p \in 1..Len(items') |-> None]
    /\ UNCHANGED <<_client, scriptVars>>

NextCalls ==
    \/ Next
    \/ ExitCall
    \/ NewCall

SpecCalls == Init /\ [][NextCalls]_vars

TypeOK ==
    /\ fn \in Fns
    /\ pc \in {"enter", "submit", "collect", "unwind", "returned", "raised",
              "idle"}
    /\ nsub \in 0..N
    /\ threads \in 0..N
    /\ running \subseteq 1..N
    /\ Range(queue) \subseteq 1..N
    /\ Range(yielded) \subseteq 1..N
    /\ completed \in 0..N
    /\ exc \in {None, "ValueError", "AttributeError"}
    /\ client_instance \in BOOLEAN
    /\ \A p \in 1..N : calls[p] \in 0..1
    /\ pbar_n \in 0..N
    /\ obs.completed \in -1..N
    /\ _client \in {None} \cup {ClientName(k) : k \in 1..(MaxWorkers + 1)}
    /\ \A p \in 1..N :
          worker_client[p] \in {None, Constructing}
              \cup {ClientName(k) : k \in 1..(MaxWorkers + 1)}
    /\ fn # "hard" => \A p \in 1..N : worker_client[p] = None


\* ------------------------------------------------------ derived notions
\* The future of position p is done.
Done(p) == ret[p] # NoResult

\* The operation of position p raised.
Failed(p) ==
    /\ Done(p)
    /\ IF fn = "hard" THEN ~ret[p].success ELSE ret[p].result = None

\* How often index k occurs in a list of tuples / in the input.
Count(seq, k) == Cardinality({i \in 1..Len(seq) : seq[i].idx = k})
Submitted(k) == Cardinality({p \in 1..N : items[p] = k})
IdxSet(seq) == {seq[i].idx : i \in 1..Len(seq)}

\* Submitted to the pool and not completed.
InFlight == {p \in 1..nsub : ~Done(p)}

\* as_completed yielded two successful items against input order.
YieldedOutOfOrder ==
    \E i, j \in 1..Len(yielded) :
        /\ i < j
        /\ yielded[i] > yielded[j]
        /\ ~Failed(yielded[i])
        /\ ~Failed(yielded[j])

\* ------------------------------------------------------------------ C1
\* C1: when one of the three tuple-returning batch functions returns,
\* len(successes) + len(failures) equals the number of submitted items.
C1_LenSum ==
    (pc = "returned" /\ fn # "hard") => Len(results) + Len(errors) = N

C1_Witness ==
    /\ pc = "returned"
    /\ fn # "hard"
    /\ N >= 2
    /\ N > max_workers
    /\ results # <<>>
    /\ errors # <<>>

\* ------------------------------------------------------------------ C2
\* C2 as stated: at return the indices in successes and failures together
\* are exactly 0..N-1, none twice and none in both lists.
C2_Orig ==
    (pc = "returned" /\ fn # "hard") =>
        /\ IdxSet(results) \cup IdxSet(errors) = 0..(N - 1)
        /\ IdxSet(results) \cap IdxSet(errors) = {}
        /\ \A k \in 0..(N - 1) : Count(results, k) <= 1 /\ Count(errors, k) <= 1

\* C2 amended: at return every index occurs in successes and failures
\* together exactly as often as it was submitted (once, for enumerate()d
\* input and for an incorrect_list of measure_accuracy), and no other index
\* occurs; the indices are those submitted, which for
\* evaluate_incorrect_classifications_batch are row_idx values.
C2_IndexPartition ==
    (pc = "returned" /\ fn # "hard") =>
        /\ IdxSet(results) \cup IdxSet(errors) = Range(items)
        /\ \A k \in Range(items) :
              Count(results, k) + Count(errors, k) = Submitted(k)

C2_Witness ==
    /\ pc = "returned"
    /\ fn = "incorrect"
    /\ N >= 2
    /\ items[N] = N
    /\ results # <<>>
    /\ errors # <<>>

C4_Orig ==
    (pc = "returned" /\ fn = "hard") =>
        /\ [i \in 1..Len(results) |-> results[i].pair] = items
        /\ \A i \in 1..Len(results) : results[i].success

\* Examples of the successful pairs, in the order as_completed yielded them.
RECURSIVE ExamplesInOrder(_)
ExamplesInOrder(order) ==
    IF order = <<>> THEN <<>>
    ELSE (IF Failed(Head(order)) THEN <<>>
          ELSE ret[Head(order)].result.examples)
         \o ExamplesInOrder(Tail(order))

\* C4 amended: generate_hard_examples_batch does not re-sort: 'results'
\* holds one dict per pair in the order the futures were collected,
\* failures included and marked success = False, and 'all_examples' follows
\* that same order; only the two counts tell successes from failures.
C4_CompletionOrder ==
    (pc = "returned" /\ fn = "hard") =>
        /\ results = [i \in 1..N |-> ret[yielded[i]]]
        /\ \A i \in 1..N : results[i].success = ~Failed(yielded[i])
        /\ AllExamples(results) = ExamplesInOrder(yielded)
        /\ FailedPairs(results) = Cardinality({p \in 1..N : Failed(p)})

C4_Witness ==
    /\ pc = "returned"
    /\ fn = "hard"
    /\ YieldedOutOfOrder
    /\ \E p \in 1..N : Failed(p)
    /\ Len(AllExamples(results)) >= 2

\* ------------------------------------------------------------------ C5
\* C5: at every instant at most max_workers operations are executing.
C5_ExecutingBound == Cardinality(running) <= max_workers

C5_Witness ==
    /\ Cardinality(running) = max_workers
    /\ max_workers >= 2
    /\ queue # <<>>

\* ------------------------------------------------------------------ C6
\* C6 as stated: at every instant at most max_workers operations are
\* submitted and not yet completed.
C6_Orig == Cardinality(InFlight) <= max_workers

\* C6 amended: all N items are submitted before collection starts, so up to
\* N operations are in flight; each of them is either executing or waiting
\* in the executor's queue, and those not waiting number at most
\* max_workers.
C6_InFlightBound ==
    /\ Cardinality(InFlight) <= N
    /\ InFlight = running \cup Range(queue)
    /\ Cardinality(InFlight) - Len(queue) <= max_workers

C6_Witness ==
    /\ pc = "collect"
    /\ max_workers >= 1
    /\ Cardinality(InFlight) > max_workers
    /\ Cardinality(running) = max_workers

\* ------------------------------------------------------------------ C7
\* C7: at return every item whose operation raised is in failures under its
\* own index and is not in successes, whatever the exception's message.
C7_Orig ==
    (pc = "returned" /\ fn # "hard") =>
        \A p \in 1..N :
            Failed(p) =>
                /\ \E i \in 1..Len(errors) :
                      errors[i] = [idx |-> items[p], error |-> ret[p].error]
                /\ \A i \in 1..Len(results) : results[i].idx # items[p]

\* ------------------------------------------------------------------ C8
\* C8: once an item's operation has failed, no exception leaves the batch
\* call: it goes on to return normally.
C8_Orig == (\E p \in 1..N : Failed(p)) => exc = None

\* ------------------------------------------------------------------ C9
\* C9: the step in which one item fails leaves every sibling as it was
\* (still queued, still executing, or done with the outcome it had), and an
\* outcome once produced never changes; so each sibling reaches its own
\* outcome, chosen for it alone.
C9_SiblingsUnaffected ==
    [][\A p \in 1..N :
         /\ Done(p) => ret'[p] = ret[p]
         /\ (~Done(p) /\ Failed(p)') =>
               \A q \in (1..N) \ {p} :
                   /\ ret'[q] = ret[q]
                   /\ q \in running => q \in running'
                   /\ q \in Range(queue) => q \in Range(queue')]_vars

C9_Witness ==
    /\ pc = "returned"
    /\ max_workers = 1
    /\ \E p, q \in 1..N : p < q /\ Failed(p) /\ Done(q) /\ ~Failed(q)

\* ------------------------------------------------------------------ C10
\* C10: the call has returned only if every one of the N operations was
\* submitted and is done: none is queued or executing.
C10_BlockingJoin ==
    pc = "returned" =>
        /\ nsub = N
        /\ \A p \in 1..N : Done(p) /\ p \notin running /\ p \notin Range(queue)

C10_Witness ==
    /\ pc = "returned"
    /\ N >= 2
    /\ N > max_workers


\* ------------------------------------------------------------------ C11
\* C11: a call with an empty input and a valid worker count starts no
\* worker thread, enters no operation, raises nothing and returns empty
\* successes and failures.
C11_EmptyBatch ==
    (N = 0 /\ max_workers >= 1) =>
        /\ threads = 0
        /\ running = {}
        /\ nsub = 0
        /\ results = <<>>
        /\ errors = <<>>
        /\ exc = None
        /\ pc \in {"enter", "submit", "collect", "returned"}

C11_Witness ==
    /\ N = 0
    /\ pc = "returned"
    /\ results = <<>>
    /\ errors = <<>>

\* ------------------------------------------------------------------ C12
\* C12: with max_workers < 1 the call never gets past the construction of
\* the executor: nothing is submitted, no operation is entered, no outcome
\* exists, and the call ends with ValueError, for every N.
C12_ConfigError ==
    max_workers < 1 =>
        /\ pc \in {"enter", "raised"}
        /\ pc = "raised" => exc = "ValueError"
        /\ nsub = 0
        /\ threads = 0
        /\ \A p \in 1..N : calls[p] = 0 /\ ~Done(p)
        /\ results = <<>>
        /\ errors = <<>>

C12_Witness ==
    /\ max_workers < 1
    /\ N >= 1
    /\ pc = "raised"
    /\ exc = "ValueError"

\* ------------------------------------------------------------------ C14
\* C14: the operation is entered at most once per submitted item, exactly
\* once for every item whose future is done (failed ones included: no
\* retry), and exactly once for every item when the call has returned.
C14_ExactlyOnce ==
    /\ \A p \in 1..N : calls[p] <= 1 /\ (Done(p) => calls[p] = 1)
    /\ pc = "returned" => \A p \in 1..N : calls[p] = 1

C14_Witness ==
    /\ pc = "returned"
    /\ N >= 2
    /\ N > max_workers
    /\ \E p \in 1..N : Failed(p) /\ calls[p] = 1


\* ------------------------------------------------------------------ C13
\* C13: whenever the collection loop has just reported a completed count,
\* that count equals the number of items succeeded so far plus the number
\* failed so far.
C13_Orig ==
    obs # NoObs => obs.completed = Len(results) + Len(errors)

\* ------------------------------------------------------------------ C15
\* Positions whose operation did not raise, in input order.
NotFailedPositions == SelectSeq([p \in 1..N |-> p], LAMBDA p : ~Failed(p))

\* C15: with F the set of items whose operation raised, the returned
\* successes are the indices outside F in ascending order and the returned
\* failures are the indices in F, each with its reason string.
C15_Orig ==
    (pc = "returned" /\ fn # "hard") =>
        /\ [i \in 1..Len(results) |-> results[i].idx]
              = [i \in 1..Len(NotFailedPositions) |->
                    items[NotFailedPositions[i]]]
        /\ Range(errors)
              = {[idx |-> items[p], error |-> ret[p].error] :
                    p \in {q \in 1..N : Failed(q)}}
        /\ Len(errors) = Cardinality({q \in 1..N : Failed(q)})


\* ------------------------------------------------------------------ C16
\* C16 as stated: no state written by one call is there when a later call
\* starts; in particular the API client handle is as it was before.
C16_Orig ==
    pc = "enter" =>
        /\ _client = None
        /\ results = <<>>
        /\ errors = <<>>
        /\ threads = 0

\* C16 amended: counters, result lists and the worker pool are created
\* afresh by every call, so a later call starts with none of them; the
\* module-level _client is the one thing that persists: only
\* evaluate_incorrect_classifications_batch (without client_instance) and
\* the workers of generate_hard_examples_batch set it, once set it is never
\* unset (and never replaced by the calling thread), and the next call
\* finds it as the previous call left it.
C16_OnlyClientPersists ==
    [][/\ pc' = "enter" =>
             /\ results' = <<>>
             /\ errors' = <<>>
             /\ completed' = 0
             /\ pbar_n' = 0
             /\ threads' = 0
             /\ queue' = <<>>
             /\ running' = {}
             /\ _client' = _client
       /\ pc' = "idle" => _client' = _client
       /\ _client # None => _client' # None
       /\ (_client # None /\ fn # "hard") => _client' = _client
       /\ _client' # _client =>
             \/ fn = "incorrect" /\ ~client_instance
             \/ fn = "hard"]_vars

C16_Witness ==
    /\ pc = "enter"
    /\ _client = "OpenAI"
    /\ fn = "summaries"


\* ------------------------------------------------------------------ C17
\* C17: whatever the progress sink is (none, prints, the real bar or the
\* fallback class), it never makes a correctly configured call fail.
C17_Orig == max_workers >= 1 => (exc = None /\ pc # "unwind")

\* ------------------------------------------------------------------ C18
\* C18: a call that ends by raising has dispatched nothing, and a call that
\* ends by returning has collected all N outcomes.
C18_Orig ==
    /\ pc = "raised" => (nsub = 0 /\ \A p \in 1..N : calls[p] = 0)
    /\ pc = "returned" => Len(yielded) = N

\* ------------------------------------------------------------------ C19
\* C19: under fair scheduling every call with max_workers >= 1 eventually
\* returns.
C19_Orig == (max_workers >= 1) ~> (pc = "returned")

\* Under the same fairness every call comes to an end, by returning or by
\* raising: nothing deadlocks.
CallEnds == <>(pc \in {"returned", "raised"})

\* ------------------------------------------------------------------ C20
\* The successes in the order the collection loop appended them.
CollectedSuccesses == SelectSeq(yielded, LAMBDA p : ~Truthy(ret[p].error))

\* C20: the three tuple-returning functions return their results in the
\* order in which the operations completed.
C20_Orig ==
    (pc = "returned" /\ fn # "hard") =>
        results = [i \in 1..Len(CollectedSuccesses) |->
                      [idx |-> items[CollectedSuccesses[i]],
                       result |-> ret[CollectedSuccesses[i]].result]]


\* ------------------------------------------- lists a caller builds by hand
\* evaluate_incorrect_classifications_batch and generate_hard_examples_batch
\* take whatever list the caller passes: besides the list in row order, one
\* with its first two entries exchanged and one with its first entry
\* listed twice.
SwapFirst(s) ==
    IF Len(s) < 2 THEN s ELSE [s EXCEPT ![1] = s[2], ![2] = s[1]]

RepeatFirst(s) == IF Len(s) < 2 THEN s ELSE [s EXCEPT ![2] = s[1]]

CallerLists(n) ==
    {Enumerate(n), SwapFirst(Enumerate(n)), RepeatFirst(Enumerate(n))}

AnyInputItems(f, n) ==
    IF f \in {"incorrect", "hard"} THEN CallerLists(n) ELSE {Enumerate(n)}

\* A first call whose incorrect_list / pairs argument is any such list.
InitAnyInput ==
    /\ fn \in Fns
    /\ max_workers \in 0..MaxWorkers
    /\ \E n \in 0..MaxN : items \in AnyInputItems(fn, n)
    /\ show_progress \in BOOLEAN
    /\ has_tqdm \in (IF fn \in {"abstracts", "incorrect"} /\ show_progress
                     THEN BOOLEAN ELSE {TRUE})
    /\ pc = "enter"
    /\ nsub = 0
    /\ queue = <<>>
    /\ threads = 0
    /\ running = {}
    /\ ret = [p \in 1..N |-> NoResult]
    /\ yielded = <<>>
    /\ results = <<>>
    /\ errors = <<>>
    /\ completed = 0
    /\ exc = None
    /\ client_instance \in (IF fn = "incorrect" THEN BOOLEAN ELSE {FALSE})
    /\ calls = [p \in 1..N |-> 0]
    /\ pbar_n = 0
    /\ obs = NoObs
    /\ worker_client = [p \in 1..N |-> None]
    /\ _client = None
    /\ NoScript

SpecAnyInput == InitAnyInput /\ [][Next]_vars

\* ------------------------------------------------------------------ C21
\* The positions whose operation succeeded, in submission order.
RECURSIVE SucceededFrom(_)
SucceededFrom(p) ==
    IF p > N THEN <<>>
    ELSE (IF Truthy(ret[p].error) THEN <<>> ELSE <<p>>) \o SucceededFrom(p + 1)

\* C21: evaluate_incorrect_classifications_batch returns the successful
\* items in the relative order in which they were submitted, whatever the
\* row_idx values of incorrect_list are.
C21_Orig ==
    (pc = "returned" /\ fn = "incorrect") =>
        results = [i \in 1..Len(SucceededFrom(1)) |->
                      [idx |-> items[SucceededFrom(1)[i]],
                       result |-> ret[SucceededFrom(1)[i]].result]]


\* ======================================================================
\* The file-rewriting scripts.  A script reads its input line by line; the
\* content of each line is chosen when the line is read, and the input ends
\* after any number of lines up to MaxLines.
\* ======================================================================

\* ------------------------------------------------ clean_training_data.py
\* An abstract is a sequence of tokens: words and placeholders.
Tokens == {"word", "@xmath0"}
IsPlaceholder(t) == t = "@xmath0"

Abstracts ==
    {<<>>} \cup {<<a>> : a \in Tokens} \cup {<<"word", "@xmath0">>}

\* sum(len(re.findall(pattern, original)) for pattern in ...)
CountPlaceholders(text) == Len(SelectSeq(text, IsPlaceholder))

\* clean_abstract: every placeholder is removed, the rest is kept and
\* stripped, so a text of placeholders only becomes the empty string.
clean_abstract(abstract) ==
    SelectSeq(abstract, LAMBDA t : ~IsPlaceholder(t))

CleanMsgs ==
    {[role |-> "user", content |-> <<"word">>]}
    \cup {[role |-> "assistant", content |-> a] : a \in Abstracts}

\* The lines clean_training_data may read: blank, not JSON, JSON without
\* 'messages', or an example with up to two messages.
CleanInputLines ==
    {[kind |-> k, messages |-> <<>>] : k \in {"blank", "badjson", "nomsg"}}
    \cup {[kind |-> "example", messages |-> m] :
            m \in {<<>>} \cup {<<a>> : a \in CleanMsgs}
                  \cup {<<a, b>> : a, b \in CleanMsgs}}

\* The `for msg in data['messages']` loop from message i on.  acc carries
\* cleaned_messages, needs_cleaning, the stats and whether `break` was hit.
RECURSIVE CleanMessages(_, _, _)
CleanMessages(msgs, i, acc) ==
    IF i > Len(msgs) \/ acc.broke THEN acc
    ELSE IF msgs[i].role = "assistant"
            /\ CountPlaceholders(msgs[i].content) > 0
         THEN IF clean_abstract(msgs[i].content) = <<>>
              THEN CleanMessages(msgs, i + 1,
                     [acc EXCEPT !.stats.skipped_empty = @ + 1,
                                 !.needs_cleaning = FALSE,
                                 !.broke = TRUE])
              ELSE CleanMessages(msgs, i + 1,
                     [acc EXCEPT !.stats.cleaned = @ + 1,
                                 !.needs_cleaning = TRUE,
                                 !.cleaned_messages =
                                     Append(@, [msgs[i] EXCEPT !.content =
                                        clean_abstract(msgs[i].content)])])
         ELSE CleanMessages(msgs, i + 1,
                [acc EXCEPT !.cleaned_messages = Append(@, msgs[i])])

\* The result of the message loop for one example; stats['total'] has been
\* incremented before.
CleanExample(line, st) ==
    CleanMessages(line.messages, 1,
                  [cleaned_messages |-> <<>>, needs_cleaning |-> FALSE,
                   broke |-> FALSE,
                   stats |-> [st EXCEPT !.total = @ + 1]])

\* What one loop iteration appends to the output file (<<>>: nothing):
\* json.dumps(data) with the cleaned messages, or the line as read.
CleanWritten(line, st, dry, n) ==
    CASE line.kind \in {"blank", "badjson"} -> <<>>
      [] line.kind = "nomsg" ->
            IF dry THEN <<>>
            ELSE <<[n |-> n, form |-> "line", messages |-> <<>>]>>
      [] OTHER ->
            LET acc == CleanExample(line, st) IN
            IF acc.needs_cleaning \/ acc.stats.total <= acc.stats.cleaned
            THEN (IF dry THEN <<>>
                  ELSE <<[n |-> n, form |-> "dumps",
                          messages |-> acc.cleaned_messages]>>)
            ELSE (IF dry THEN <<>>
                  ELSE <<[n |-> n, form |-> "line",
                          messages |-> line.messages]>>)

\* The stats after one loop iteration.
CleanStats(line, st) ==
    CASE line.kind \in {"blank", "badjson"} -> st
      [] line.kind = "nomsg" -> [st EXCEPT !.total = @ + 1]
      [] OTHER -> CleanExample(line, st).stats

\* Whether the iteration took the `skipped_empty` branch.
CleanSkipped(line, st) ==
    line.kind = "example" /\ CleanExample(line, st).broke

\* open(output_path, 'w'): the file is created, or truncated if it exists.
OpenForWriting(f) == <<>>

\* The batch functions' variables while a script runs.
NoBatch ==
    /\ fn = "summaries"
    /\ items = <<>>
    /\ max_workers = 1
    /\ show_progress = FALSE
    /\ has_tqdm = TRUE
    /\ pc = "idle"
    /\ nsub = 0
    /\ queue = <<>>
    /\ threads = 0
    /\ running = {}
    /\ ret = <<>>
    /\ yielded = <<>>
    /\ results = <<>>
    /\ errors = <<>>
    /\ completed = 0
    /\ exc = None
    /\ client_instance = FALSE
    /\ calls = <<>>
    /\ pbar_n = 0
    /\ obs = NoObs
    /\ _client = None
    /\ worker_client = <<>>

\* A line left in the output path by an earlier run.
OldLine == [n |-> 0, form |-> "line", messages |-> <<>>]

\* A script starts: the output path does not exist or holds old data.
InitScripts ==
    /\ NoBatch
    /\ script \in {"clean", "merge"}
    /\ spc = "start"
    /\ dry_run \in (IF script = "clean" THEN BOOLEAN ELSE {FALSE})
    /\ outfile \in {None, <<OldLine>>}
    /\ outfile_before = outfile
    /\ nread = 0
    /\ stats = [total |-> 0, cleaned |-> 0, skipped_empty |-> 0]
    /\ last = [skipped |-> FALSE, wrote |-> FALSE]
    /\ train_count = 0
    /\ eval_written = 0

\* `with open(input_path) ... with open(output_path, 'w')`: both files are
\* opened before the loop, whatever dry_run is.
CleanOpen ==
    /\ script = "clean"
    /\ spc = "start"
    /\ spc' = "loop"
    /\ outfile' = OpenForWriting(outfile)
    /\ UNCHANGED <<batchVars, script, dry_run, outfile_before, nread, stats,
                   last, train_count, eval_written>>

\* One iteration of `for line in infile`.
CleanLine(line) ==
    /\ script = "clean"
    /\ spc = "loop"
    /\ nread < MaxLines
    /\ nread' = nread + 1
    /\ stats' = CleanStats(line, stats)
    /\ outfile' = outfile \o CleanWritten(line, stats, dry_run, nread + 1)
    /\ last' = [skipped |-> CleanSkipped(line, stats),
                wrote |-> CleanWritten(line, stats, dry_run, nread + 1)
                              # <<>>]
    /\ UNCHANGED <<batchVars, script, spc, dry_run, outfile_before,
                   train_count, eval_written>>

\* The input is exhausted, the files are closed and the statistics printed:
\* stats['cleaned']/stats['total'] raises ZeroDivisionError when no example
\* was read.
CleanClose ==
    /\ script = "clean"
    /\ spc = "loop"
    /\ spc' = IF stats.total = 0 THEN "raised" ELSE "done"
    /\ UNCHANGED <<batchVars, script, dry_run, outfile, outfile_before,
                   nread, stats, last, train_count, eval_written>>


\* ------------------------------------------ merge_and_fix_training_data.py
MaxLabel == 76     \* the largest banking77 intent id

\* The content of an assistant message (and the 'response' of an
\* evaluation_results entry) is a string, modelled as a sequence of
\* characters.
DigitValue(c) ==
    CASE c = "0" -> 0 [] c = "1" -> 1 [] c = "2" -> 2 [] c = "3" -> 3
      [] c = "4" -> 4 [] c = "5" -> 5 [] c = "6" -> 6 [] c = "7" -> 7
      [] c = "8" -> 8 [] c = "9" -> 9 [] OTHER -> -1

IsDigit(c) == DigitValue(c) >= 0

\* The strings explored: "", "7", " 7", "7 ", "07", "77", "7x".
Contents ==
    {<<>>, <<"7">>, <<" ", "7">>, <<"7", " ">>, <<"0", "7">>, <<"7", "7">>,
     <<"7", "x">>}

\* str.strip(): leading and trailing whitespace removed.
RECURSIVE LStrip(_)
LStrip(t) == IF t # <<>> /\ Head(t) = " " THEN LStrip(Tail(t)) ELSE t

RECURSIVE RStrip(_)
RStrip(t) ==
    IF t # <<>> /\ t[Len(t)] = " " THEN RStrip(SubSeq(t, 1, Len(t) - 1))
    ELSE t

Strip(t) == LStrip(RStrip(t))

\* re.match(r'^\s*\d+\s*$', content) on a stripped string: one or more
\* digits and nothing else.
MatchesNumber(t) == t # <<>> /\ \A i \in 1..Len(t) : IsDigit(t[i])

\* int(content)
RECURSIVE IntOf(_)
IntOf(t) ==
    IF t = <<>> THEN 0
    ELSE 10 * IntOf(SubSeq(t, 1, Len(t) - 1)) + DigitValue(t[Len(t)])

\* Variant: any number is accepted as a label.
is_valid_label_any_number(content) ==
    content # <<>> /\ MatchesNumber(Strip(content))

\* is_valid_label(content) is not None
is_valid_label(content) ==
    /\ content # <<>>
    /\ MatchesNumber(Strip(content))
    /\ 0 <= IntOf(Strip(content))
    /\ IntOf(Strip(content)) <= MaxLabel

\* has_valid_assistant_response: the last message with role assistant
\* carries a valid label; False when there is no assistant message.
RECURSIVE has_valid_assistant_response(_)
has_valid_assistant_response(messages) ==
    IF messages = <<>> THEN FALSE
    ELSE IF messages[Len(messages)].role = "assistant"
         THEN is_valid_label(messages[Len(messages)].content)
         ELSE has_valid_assistant_response(
                  SubSeq(messages, 1, Len(messages) - 1))

\* str(label)
StrOfLabel(label) ==
    LET d == <<"0", "1", "2", "3", "4", "5", "6", "7", "8", "9">> IN
    IF label < 10 THEN <<d[label + 1]>>
    ELSE <<d[(label \div 10) + 1], d[(label % 10) + 1]>>

SystemMsg == [role |-> "system", content |-> <<"x">>]

MergeMsgs ==
    {SystemMsg, [role |-> "user", content |-> <<"x">>]}
    \cup {[role |-> "assistant", content |-> c] : c \in Contents}

MessageLists ==
    {<<>>} \cup {<<a>> : a \in MergeMsgs}
    \cup {<<a, b>> : a \in MergeMsgs,
                     b \in {m \in MergeMsgs : m.role # "system"}}

\* The lines of the two input files: blank, not JSON, an entry with
\* 'messages', an entry without (evaluation_results format: request and
\* response).
MergeInputLines ==
    {[kind |-> k, messages |-> <<>>, response |-> <<>>] :
        k \in {"blank", "badjson"}}
    \cup {[kind |-> "messages", messages |-> m, response |-> <<>>] :
            m \in MessageLists}
    \cup {[kind |-> "response", messages |-> <<>>, response |-> c] :
            c \in Contents}

\* convert_evaluation_entry for an entry without 'messages': None (<<>>)
\* unless the stripped response is a number in 0..76, else the
\* three-message entry with str(label) as the assistant content.
convert_evaluation_entry(entry) ==
    IF MatchesNumber(Strip(entry.response))
       /\ 0 <= IntOf(Strip(entry.response))
       /\ IntOf(Strip(entry.response)) <= MaxLabel
    THEN <<SystemMsg, [role |-> "user", content |-> <<"x">>],
           [role |-> "assistant",
            content |-> StrOfLabel(IntOf(Strip(entry.response)))]>>
    ELSE <<>>

\* What the training loop writes for one line: the line itself if it has
\* 'messages' with a valid assistant response.
TrainWritten(line) ==
    IF line.kind = "messages" /\ has_valid_assistant_response(line.messages)
    THEN <<[messages |-> line.messages]>>
    ELSE <<>>

\* The messages of an evaluation entry that has 'messages': the system
\* prompt is put in front when no message has role system.
WithSystem(messages) ==
    IF \E i \in 1..Len(messages) : messages[i].role = "system"
    THEN messages ELSE <<SystemMsg>> \o messages

\* What the evaluation loop writes for one line.
EvalWritten(line) ==
    CASE line.kind = "messages" ->
            IF has_valid_assistant_response(WithSystem(line.messages))
            THEN <<[messages |-> WithSystem(line.messages)]>> ELSE <<>>
      [] line.kind = "response" ->
            IF convert_evaluation_entry(line) # <<>>
               /\ has_valid_assistant_response(convert_evaluation_entry(line))
            THEN <<[messages |-> convert_evaluation_entry(line)]>> ELSE <<>>
      [] OTHER -> <<>>

\* `with open(output_path, 'w') as outfile`, then the training file is read.
MergeOpen ==
    /\ script = "merge"
    /\ spc = "start"
    /\ spc' = "train"
    /\ outfile' = OpenForWriting(outfile)
    /\ UNCHANGED <<batchVars, script, dry_run, outfile_before, nread, stats,
                   last, train_count, eval_written>>

\* One line of the training file.
MergeTrainLine(line) ==
    /\ script = "merge"
    /\ spc = "train"
    /\ nread < MaxLines
    /\ nread' = nread + 1
    /\ outfile' = outfile \o TrainWritten(line)
    /\ train_count' = train_count + Len(TrainWritten(line))
    /\ UNCHANGED <<batchVars, script, spc, dry_run, outfile_before, stats,
                   last, eval_written>>

\* The training file is exhausted, the evaluation file is opened.
MergeTrainEnd ==
    /\ script = "merge"
    /\ spc = "train"
    /\ spc' = "eval"
    /\ UNCHANGED <<batchVars, script, dry_run, outfile, outfile_before,
                   nread, stats, last, train_count, eval_written>>

\* One line of the evaluation file.
MergeEvalLine(line) ==
    /\ script = "merge"
    /\ spc = "eval"
    /\ nread < MaxLines
    /\ nread' = nread + 1
    /\ outfile' = outfile \o EvalWritten(line)
    /\ eval_written' = eval_written + Len(EvalWritten(line))
    /\ UNCHANGED <<batchVars, script, spc, dry_run, outfile_before, stats,
                   last, train_count>>

\* Both files are read; the totals are printed.
MergeClose ==
    /\ script = "merge"
    /\ spc = "eval"
    /\ spc' = "done"
    /\ UNCHANGED <<batchVars, script, dry_run, outfile, outfile_before,
                   nread, stats, last, train_count, eval_written>>

NextScripts ==
    \/ CleanOpen
    \/ \E line \in CleanInputLines : CleanLine(line)
    \/ CleanClose
    \/ MergeOpen
    \/ \E line \in MergeInputLines : MergeTrainLine(line)
    \/ MergeTrainEnd
    \/ \E line \in MergeInputLines : MergeEvalLine(line)
    \/ MergeClose

SpecScripts == InitScripts /\ [][NextScripts]_vars


ScriptTypeOK ==
    /\ script \in {"clean", "merge"}
    /\ spc \in {"start", "loop", "train", "eval", "done", "raised"}
    /\ dry_run \in BOOLEAN
    /\ nread \in 0..MaxLines
    /\ stats.total \in 0..MaxLines
    /\ stats.skipped_empty \in 0..MaxLines
    /\ train_count \in 0..MaxLines
    /\ eval_written \in 0..MaxLines
    /\ outfile # None => Len(outfile) <= MaxLines

\* ------------------------------------------------------------------ C22
\* C22: clean_training_data with dry_run=True leaves the output file
\* exactly as it was before the call: not created, truncated or written.
C22_Orig ==
    (script = "clean" /\ dry_run) => outfile = outfile_before

\* ------------------------------------------------------------------ C24
\* C24: with dry_run=False, the loop iteration that finds an assistant
\* abstract empty after placeholder removal writes no line for that
\* example, neither the cleaned nor the original one.
C24_Orig ==
    (script = "clean" /\ ~dry_run) => ~(last.skipped /\ last.wrote)

\* ------------------------------------------------------------------ C25
\* The strings that are nothing but an integer in 0..76: its decimal
\* digits, possibly with a leading zero and surrounding whitespace.
LabelTexts ==
    {pl \o z \o StrOfLabel(l) \o pr :
        l \in 0..MaxLabel, pl \in {<<>>, <<" ">>}, z \in {<<>>, <<"0">>},
        pr \in {<<>>, <<" ">>}}

AssistantPositions(messages) ==
    {i \in 1..Len(messages) : messages[i].role = "assistant"}

LastAssistantContent(messages) ==
    messages[CHOOSE i \in AssistantPositions(messages) :
                \A j \in AssistantPositions(messages) : j <= i].content

\* C25: every entry merge_and_fix_files has written, whether copied from
\* the training file or taken or converted from the evaluation file, has a
\* last assistant message whose content is only an integer in 0..76, and
\* train_count + eval_written is the number of lines written.
C25_ValidLabels ==
    (script = "merge" /\ spc # "start") =>
        /\ \A i \in 1..Len(outfile) :
              /\ AssistantPositions(outfile[i].messages) # {}
              /\ LastAssistantContent(outfile[i].messages) \in LabelTexts
        /\ train_count + eval_written = Len(outfile)

\* The run is over and the output holds a copied training entry followed by
\* an entry converted from a request/response line.
C25_Witness ==
    /\ script = "merge"
    /\ spc = "done"
    /\ train_count = 1
    /\ eval_written = 1
    /\ Len(outfile) = 2
    /\ LastAssistantContent(outfile[1].messages) = <<" ", "7">>
    /\ outfile[2].messages = convert_evaluation_entry(
          [kind |-> "response", messages |-> <<>>,
           response |-> <<"0", "7">>])


\* ------------------------------------------------------------------ C23
\* A step of a worker thread: it takes an item, constructs the client or
\* finishes an operation.
WorkerStep ==
    running' # running \/ ret' # ret \/ worker_client' # worker_client

\* How often the outcome of position p is recorded in the lists.
Recorded(p) ==
    IF fn = "hard"
    THEN Cardinality({i \in 1..Len(results) : results[i].pair = items[p]})
    ELSE Count(results, items[p]) + Count(errors, items[p])

\* Done and not yet picked up by the collection loop.
AwaitingCollection == {p \in 1..N : Done(p) /\ p \notin Range(yielded)}

\* C23: the result lists and the counters are written by the collecting
\* thread only, no step of a worker changes them, and at every moment each
\* outcome the loop has picked up is recorded exactly once and no other
\* outcome is recorded.
C23_SingleWriter ==
    /\ [][WorkerStep =>
            UNCHANGED <<results, errors, completed, pbar_n, yielded>>]_vars
    /\ [](\A p \in 1..N :
            Recorded(p) = (IF p \in Range(yielded) THEN 1 ELSE 0))

\* Two operations have completed at the same time and wait for the
\* collecting thread, which has already recorded another one.
C23_Witness ==
    /\ pc = "collect"
    /\ max_workers = 2
    /\ Cardinality(AwaitingCollection) = 2
    /\ Len(yielded) = 1
    /\ Len(results) + Len(errors) = 1

\* ------------------------------------------------------------------ C26
\* C26: every entry of the returned success list carries a payload: no
\* (index, None) entry, and no entry for an item whose operation raised.
C26_Orig ==
    (pc = "returned" /\ fn # "hard") =>
        \A i \in 1..Len(results) : results[i].result # None

\* ------------------------------------------------------------------ C27
\* C27: while the workers of generate_hard_examples_batch call get_client()
\* the client is constructed at most once, and every worker uses that one
\* instance.
C27_Orig ==
    fn = "hard" =>
        /\ _client \in {None, ClientName(1)}
        /\ \A p \in 1..N :
              worker_client[p] \in {None, Constructing, ClientName(1)}

\* ------------------------------------------------------------------ C28
\* The number of examples the successful operations returned.
RECURSIVE ExamplesReturnedFrom(_)
ExamplesReturnedFrom(p) ==
    IF p > N THEN 0
    ELSE (IF ret[p].success THEN ret[p].result.num_generated ELSE 0)
         + ExamplesReturnedFrom(p + 1)

\* C28: when generate_hard_examples_batch returns, 'results' has exactly
\* one entry per element of pairs (a pair string listed k times has k
\* entries), successful_pairs + failed_pairs = len(pairs), and
\* total_examples is the number of examples of the successful pairs.
C28_OneEntryPerPair ==
    (pc = "returned" /\ fn = "hard") =>
        /\ Len(results) = N
        /\ \A p \in 1..N :
              Cardinality({i \in 1..N : results[i].pair = items[p]})
                  = Submitted(items[p])
        /\ SuccessfulPairs(results) = Cardinality({p \in 1..N : ~Failed(p)})
        /\ FailedPairs(results) = Cardinality({p \in 1..N : Failed(p)})
        /\ SuccessfulPairs(results) + FailedPairs(results) = N
        /\ Len(AllExamples(results)) = ExamplesReturnedFrom(1)

\* Returned for a list that names one pair twice, one of the two
\* operations having failed and the other having produced an example.
C28_Witness ==
    /\ pc = "returned"
    /\ fn = "hard"
    /\ N >= 2
    /\ items[1] = items[2]
    /\ Failed(1)
    /\ ~Failed(2)
    /\ Len(AllExamples(results)) = 1

\* ------------------------------------------------------------------ C29
\* C29: on every exit path, by return or by an exception (from the
\* executor's constructor or from the progress sink inside the loop), the
\* call is only left when no submitted operation is queued or executing:
\* every submitted operation has finished.
C29_NoOperationOutlives ==
    pc \in {"returned", "raised"} =>
        /\ queue = <<>>
        /\ running = {}
        /\ \A p \in 1..nsub : Done(p)

\* The progress sink raised in the loop while an operation had not been
\* collected; the call has been left with every operation finished.
C29_Witness ==
    /\ pc = "raised"
    /\ exc = "AttributeError"
    /\ Len(yielded) < N
    /\ \A p \in 1..N : Done(p)

====
